---- MODULE Spec2Model ----
(***************************************************************************)
(* World Magnetic Model (src/ahrs/utils/wmm.py): the WMM object, its date  *)
(* and coefficient handling, the Legendre/denormalization traversal, the   *)
(* spherical-harmonic synthesis and the derived magnetic elements.         *)
(*                                                                         *)
(* Numbers.  Python floats are modelled in fixed point:                    *)
(*   - decimal dates are integers counting 1/73000 of a year, so that both *)
(*     a decimal year with three decimals (k/1000) and year + yday/365.0   *)
(*     are exact;                                                          *)
(*   - field values and Gauss coefficients are integers (nT, nT/yr);       *)
(*   - dimensionless factors (sines, cosines, S, k, P, dP, a/r) are        *)
(*     integers counting 1/Q;                                              *)
(*   - an angle in radians is the pair [s, c] of its sine and cosine       *)
(*     (counting 1/Q), np.sin/np.cos read the pair, np.arcsin builds it,   *)
(*     the difference of two angles is the rotation of one by the other;   *)
(*   - angles in degrees are integers, known on a grid of 5 degrees.       *)
(* An attribute that is None is the empty tuple <<>>, a set one is <<v>>.  *)
(***************************************************************************)
EXTENDS Integers, Sequences, FiniteSets, TLC

\* ---------------------------------------------------------------- bounds
\* Degree of the coefficient tables (max n of a COF file; 12 in the release).
Degree == 2
\* Number of method calls made on a constructed object.
MaxCalls == 1

\* ------------------------------------------------------------ arithmetic
Q == 10 ^ 4
YearUnits == 365 * 200
MilliUnits == YearUnits \div 1000

None == <<>>
Some(v) == <<v>>
Val(o) == o[1]

Abs(x) == IF x < 0 THEN -x ELSE x

\* Division by a non-zero divisor, the quotient cut towards zero.
Div(a, b) ==
    IF (a >= 0) = (b > 0) THEN Abs(a) \div Abs(b) ELSE -(Abs(a) \div Abs(b))

\* Product of two 1/Q fixed-point factors (or of a value and a factor).
Mul(a, b) == Div(a * b, Q)

RECURSIVE SqrtSearch(_, _, _)
SqrtSearch(v, lo, hi) ==
    IF lo >= hi THEN lo
    ELSE LET mid == (lo + hi + 1) \div 2
         IN  IF mid * mid <= v THEN SqrtSearch(v, mid, hi)
             ELSE SqrtSearch(v, lo, mid - 1)

\* Integer square root (floor), v >= 0.
ISqrt(v) == SqrtSearch(v, 0, 46340)

\* np.sqrt of the fraction p/q, as a 1/Q factor.
SqrtFrac(p, q) == ISqrt(Div(p * Q * Q, q))

\* np.linalg.norm([x, y])
norm(x, y) == ISqrt(x * x + y * y)

\* Python's round(): to the nearest multiple of unit, ties to the even one.
RoundHalfEven(x, unit) ==
    LET lo == x \div unit
        r  == x - lo * unit
    IN  IF 2 * r < unit THEN lo
        ELSE IF 2 * r > unit THEN lo + 1
        ELSE IF lo % 2 = 0 THEN lo ELSE lo + 1

\* ------------------------------------------------------------ angles
\* sin of 0, 5, ..., 90 degrees, counting 1/Q.
SinTable ==
    <<0, 872, 1736, 2588, 3420, 4226, 5000, 5736, 6428, 7071,
      7660, 8192, 8660, 9063, 9397, 9659, 9848, 9962, 10000>>

RECURSIVE SinOf(_)
SinOf(d) ==
    IF d < 0 THEN -SinOf(-d)
    ELSE IF d >= 360 THEN SinOf(d - 360)
    ELSE IF d > 180 THEN -SinOf(d - 180)
    ELSE IF d > 90 THEN SinOf(180 - d)
    ELSE SinTable[(d \div 5) + 1]

\* The sines of the grid angles the model meets, computed once.
SinGrid == [d \in {5 * i : i \in -80 .. 120} |-> SinOf(d)]

SinDeg(d) == SinGrid[d]

CosDeg(d) == SinDeg(d + 90)

\* angle * DEG2RAD
Radians(deg) == [s |-> SinDeg(deg), c |-> CosDeg(deg)]

np_sin(a) == a.s

\* np.cos of a double is never exactly 0.0 (no double equals pi/2): the
\* smallest positive fixed-point value stands for cos(pi/2) = 6.1e-17.
np_cos(a) == IF a.c = 0 THEN 1 ELSE a.c

\* np.arcsin(x), x a 1/Q factor in [-1, 1]: the angle in [-pi/2, pi/2].
np_arcsin(x) == [s |-> x, c |-> ISqrt(Q * Q - x * x)]

\* a - b for two angles
AngleDiff(a, b) ==
    [s |-> Mul(a.s, b.c) - Mul(a.c, b.s),
     c |-> Mul(a.c, b.c) + Mul(a.s, b.s)]

\* RAD2DEG * np.arctan2(y, x): the grid angle in (-180, 180] nearest to the
\* direction of (x, y); arctan2(0, 0) = 0.
GridAngles == {5 * i : i \in -35 .. 36}
Proj(d, y, x) == x * CosDeg(d) + y * SinDeg(d)
arctan2deg(y, x) ==
    IF x = 0 /\ y = 0 THEN 0
    ELSE CHOOSE d \in GridAngles :
           /\ Proj(d, y, x) > 0
           /\ Proj(d, y, x) >= Proj(d + 5, y, x)
           /\ Proj(d, y, x) > Proj(d - 5, y, x)

\* ------------------------------------------------------------ dates
\* A datetime.date is [year, yday] (tm_yday, 1-based).
IsLeap(y) == (y % 4 = 0 /\ y % 100 # 0) \/ y % 400 = 0
YearLen(y) == IF IsLeap(y) THEN 366 ELSE 365

\* datetime.date.fromordinal(datetime.date(y, 1, 1).toordinal() + k), 0 <= k <= 365
FromJan1(y, k) ==
    IF k < YearLen(y) THEN [year |-> y, yday |-> k + 1]
    ELSE [year |-> y + 1, yday |-> k - YearLen(y) + 1]

\* date.year + date.timetuple().tm_yday/365.0
DateDec(d) == d.year * YearUnits + d.yday * (YearUnits \div 365)

\* A date argument: [kind, a, b] with kind "None", "omitted" (the parameter
\* left to its default), "num" (a = the decimal year in 1/1000 year),
\* "date" (a = year, b = tm_yday) or "other" (any other type).
DateNone == [kind |-> "None", a |-> 0, b |-> 0]
DateOmitted == [kind |-> "omitted", a |-> 0, b |-> 0]
DateOther == [kind |-> "other", a |-> 0, b |-> 0]
DateNum(milli) == [kind |-> "num", a |-> milli, b |-> 0]
DateObj(y, yd) == [kind |-> "date", a |-> y, b |-> yd]

\* ------------------------------------------------------------ COF files
File2015 == "WMM2015/WMM.COF"
File2020 == "WMM2020/WMM.COF"

\* Header line "<epoch_year> <model_label> <release_date>".
COFHeader(file) ==
    IF file = File2015
    THEN [epoch |-> 2015 * YearUnits, model |-> "WMM-2015", modeldate |-> "12/15/2014"]
    ELSE [epoch |-> 2020 * YearUnits, model |-> "WMM-2020", modeldate |-> "12/10/2019"]

\* Row (n, m, g, h, gdot, hdot) of a file, 1 <= n <= Degree, 0 <= m <= n.
COFRow(file, n, m) ==
    LET sign == IF (n + m) % 2 = 0 THEN 1 ELSE -1
        b    == IF file = File2015 THEN 0 ELSE 1
    IN  [n  |-> n, m |-> m,
         g  |-> sign * (Div(2400, n * n) + 100 * m + 30 * b),
         h  |-> IF m = 0 THEN 0 ELSE -sign * (Div(1200, n) + 70 * m + 20 * b),
         gd |-> sign * (3 * n + 20 * m + 10 + b),
         hd |-> IF m = 0 THEN 0 ELSE -(20 * n + 3 * m) - b]

\* The (n, m) pairs in file order: n = 1..Degree, m = 0..n.
RECURSIVE PairsFrom(_, _)
PairsFrom(n, m) ==
    IF n > Degree THEN <<>>
    ELSE IF m > n THEN PairsFrom(n + 1, 0)
    ELSE <<[n |-> n, m |-> m]>> \o PairsFrom(n, m + 1)

Pairs == PairsFrom(1, 0)

COFData(file) == [i \in 1 .. Len(Pairs) |-> COFRow(file, Pairs[i].n, Pairs[i].m)]

\* ------------------------------------------------------------ arrays
\* np.zeros((rows, cols)), np.identity(size): an array is the tuple of its
\* rows, a row the tuple of its entries; Python's index i is position i + 1.
Zeros(rows, cols) == [i \in 1 .. rows |-> [j \in 1 .. cols |-> 0]]
Identity(size) == [i \in 1 .. size |-> [j \in 1 .. size |-> IF i = j THEN Q ELSE 0]]
Vector(size, v) == [i \in 1 .. size |-> v]

\* A Python index: a negative one counts from the end.
Ix(i, size) == IF i < 0 THEN i + size ELSE i
At(A, i, j) == A[Ix(i, Len(A)) + 1][Ix(j, Len(A[1])) + 1]
Put(A, i, j, v) == [A EXCEPT ![Ix(i, Len(A)) + 1][Ix(j, Len(A[1])) + 1] = v]
VAt(v, i) == v[Ix(i, Len(v)) + 1]
VPut(v, i, x) == [v EXCEPT ![Ix(i, Len(v)) + 1] = x]

\* ------------------------------------------------------------ the object
ElementNames == {"X", "Y", "Z", "H", "F", "I", "D", "GV"}

\* The attributes before __init__ has set any.
Blank ==
    [date |-> None, date_dec |-> None, wmm_filename |-> None,
     epoch |-> None, model |-> None, modeldate |-> None,
     degree |-> None, c |-> None, cd |-> None,
     latitude |-> None, longitude |-> None, height |-> None, frame |-> None,
     X |-> None, Y |-> None, Z |-> None, H |-> None,
     F |-> None, I |-> None, D |-> None, GV |-> None,
     k |-> None, P |-> None, dP |-> None, sp |-> None, cp |-> None, gh |-> None]

\* A method's outcome: the object as the method leaves it and the exception
\* raised ("none" when it returns).
Ok(o) == [o |-> o, exc |-> "none"]
Raise(o, e) == [o |-> o, exc |-> e]

\* A selection that still takes the 2015 file at date_dec = 2020.0.
SelectFileInclusive(date_dec) == IF date_dec <= 2020 * YearUnits THEN File2015 ELSE File2020

\* WMM.reset_date, line 555
SelectFile(date_dec) == IF date_dec < 2020 * YearUnits THEN File2015 ELSE File2020

\* WMM.reset_date, line 553
FirstYear(year) == year < 2015

\* self.date for a date argument (lines 543, 547, 549).
DateOf(date, today) ==
    CASE date.kind = "None" -> today
      [] date.kind = "num" ->
           FromJan1(date.a \div 1000, RoundHalfEven((date.a % 1000) * 365, 1000))
      [] OTHER -> [year |-> date.a, yday |-> date.b]

\* self.date_dec for a date argument, d being self.date (lines 544, 546, 550).
DecimalOf(date, d) == IF date.kind = "num" THEN date.a * MilliUnits ELSE DateDec(d)

StoreDate(o, date, d) ==
    [o EXCEPT !.date = Some(d), !.date_dec = Some(DecimalOf(date, d))]

\* Lines 553-555: the year is tested once date and date_dec are stored.
CheckYear(o) ==
    IF FirstYear(Val(o.date).year) THEN Raise(o, "ValueError")
    ELSE Ok([o EXCEPT !.wmm_filename = Some(SelectFile(Val(o.date_dec)))])

\* WMM.reset_date (datetime.date.today() is passed as today)
reset_date(o, date, today) ==
    IF date.kind \notin {"None", "num", "date"} THEN Raise(o, "TypeError")
    ELSE CheckYear(StoreDate(o, date, DateOf(date, today)))

\* WMM.get_properties
get_properties(cof_file) == COFHeader(cof_file)

\* h stored at (n, m), without the shift of the order by one.
StoreHUnshifted(A, row, v) == IF row.m # 0 THEN Put(A, row.n, row.m, v) ELSE A

\* self.c[n, m-1] = row[3] and self.cd[n, m-1] = row[5], if m != 0
StoreH(A, row, v) == IF row.m # 0 THEN Put(A, row.n, row.m - 1, v) ELSE A

\* One pass of the loop over the rows.
StoreRow(o, row) ==
    [o EXCEPT !.c = Some(StoreH(Put(Val(@), row.m, row.n, row.g), row, row.h)),
              !.cd = Some(StoreH(Put(Val(@), row.m, row.n, row.gd), row, row.hd))]

RECURSIVE LoadRows(_, _, _)
LoadRows(o, data, i) ==
    IF i > Len(data) THEN o
    ELSE LoadRows(StoreRow(o, data[i]), data, i + 1)

MaxN(data) == CHOOSE n \in {data[i].n : i \in DOMAIN data} :
                 \A i \in DOMAIN data : data[i].n <= n

SizeTable(o, deg) ==
    [o EXCEPT !.degree = Some(deg),
              !.c = Some(Zeros(deg + 1, deg + 1)),
              !.cd = Some(Zeros(deg + 1, deg + 1))]

LoadTable(o, data) == LoadRows(SizeTable(o, MaxN(data)), data, 1)

\* WMM.load_coefficients
load_coefficients(o, cof_file) == LoadTable(o, COFData(cof_file))

SetProperties(o, p) ==
    [o EXCEPT !.epoch = Some(p.epoch), !.model = Some(p.model),
              !.modeldate = Some(p.modeldate)]

\* Lines 434-435, r being the outcome of reset_date.
LoadSelected(r) ==
    IF r.exc # "none" THEN r
    ELSE Ok(load_coefficients(SetProperties(r.o, get_properties(Val(r.o.wmm_filename))),
                              Val(r.o.wmm_filename)))

\* WMM.reset_coefficients
reset_coefficients(o, date, today) == LoadSelected(reset_date(o, date, today))

\* WMM._guard_clauses (latitude, longitude and height are numbers and frame
\* is a string in every call the model makes)
guard_clauses(o) ==
    IF Abs(Val(o.latitude)) > 90 THEN Raise(o, "ValueError")
    ELSE IF Abs(Val(o.longitude)) > 180 THEN Raise(o, "ValueError")
    ELSE IF Val(o.frame) \notin {"NED", "ENU"} THEN Raise(o, "ValueError")
    ELSE Ok(o)

\* ------------------------------------------------------------ Legendre
\* WMM.denormalize_coefficients.  The loops work on st = [degree, S, k, P, dP,
\* c, cd, delta]; each operator below is one group of assignments of the loop
\* body, applied in the order of the code.

\* S[m, n] = S[m-1, n] * np.sqrt((n-m+1)*(delta+1)/(n+m))
ScaleNorm(S, n, m, delta) == Mul(At(S, m - 1, n), SqrtFrac((n - m + 1) * (delta + 1), n + m))

\* self.k[m, n] = ((n-1)**2 - m**2) / ((2*n-1)*(2*n-3))
KFactor(n, m) == Div(((n - 1) ^ 2 - m ^ 2) * Q, (2 * n - 1) * (2 * n - 3))

SetK(st, n, m) == [st EXCEPT !.k = Put(@, m, n, KFactor(n, m))]

\* if m > 0: S[m, n] = ...
SetS(st, n, m) ==
    IF m > 0 THEN [st EXCEPT !.S = Put(@, m, n, ScaleNorm(@, n, m, st.delta))]
    ELSE st

\* if m > 0: self.c[n, m-1] *= S[m, n]; self.cd[n, m-1] *= S[m, n]; delta = 0
ScaleH(st, n, m) ==
    IF m > 0
    THEN [st EXCEPT !.c = Put(@, n, m - 1, Mul(At(@, n, m - 1), At(st.S, m, n))),
                    !.cd = Put(@, n, m - 1, Mul(At(@, n, m - 1), At(st.S, m, n))),
                    !.delta = 0]
    ELSE st

\* The column n-2 that the else branch reads in P and dP (lines 696-697).
TwoBack(n) == n - 2

\* self.P[m, n]
SetP(st, n, m, cos_lat, sin_lat) ==
    IF n = m
    THEN [st EXCEPT !.P = Put(@, m, n, Mul(cos_lat, At(@, m - 1, n - 1)))]
    ELSE [st EXCEPT !.P = Put(@, m, n, Mul(sin_lat, At(@, m, n - 1))
                                         - Mul(At(st.k, m, n), At(@, m, TwoBack(n))))]

\* The derivative with sin(phi') and cos(phi') exchanged on the diagonal.
SetdPExchanged(st, n, m, cos_lat, sin_lat) ==
    IF n = m
    THEN [st EXCEPT !.dP = Put(@, m, n, Mul(sin_lat, At(@, m - 1, n - 1))
                                          + Mul(cos_lat, At(st.P, m - 1, n - 1)))]
    ELSE [st EXCEPT !.dP = Put(@, m, n, Mul(sin_lat, At(@, m, n - 1))
                                          - Mul(cos_lat, At(st.P, m, n - 1))
                                          - Mul(At(st.k, m, n), At(@, m, TwoBack(n))))]

\* self.dP[m, n], which reads P after the assignment to P[m, n]
SetdP(st, n, m, cos_lat, sin_lat) ==
    IF n = m
    THEN [st EXCEPT !.dP = Put(@, m, n, Mul(cos_lat, At(@, m - 1, n - 1))
                                          + Mul(sin_lat, At(st.P, m - 1, n - 1)))]
    ELSE [st EXCEPT !.dP = Put(@, m, n, Mul(sin_lat, At(@, m, n - 1))
                                          - Mul(cos_lat, At(st.P, m, n - 1))
                                          - Mul(At(st.k, m, n), At(@, m, TwoBack(n))))]

\* self.c[m, n] *= S[m, n]; self.cd[m, n] *= S[m, n]
ScaleG(st, n, m) ==
    [st EXCEPT !.c = Put(@, m, n, Mul(At(@, m, n), At(st.S, m, n))),
               !.cd = Put(@, m, n, Mul(At(@, m, n), At(st.S, m, n)))]

\* One pass of the loop over m.
DenormStep(st, n, m, cos_lat, sin_lat) ==
    ScaleG(SetdP(SetP(ScaleH(SetS(SetK(st, n, m), n, m), n, m),
                      n, m, cos_lat, sin_lat),
                 n, m, cos_lat, sin_lat),
           n, m)

\* S[0, n] = S[0, n-1] * (2*n-1)/n; delta = 1
StartDegree(st, n) ==
    [st EXCEPT !.S = Put(@, 0, n, Div(At(@, 0, n - 1) * (2 * n - 1), n)),
               !.delta = 1]

\* for n in range(1, self.degree+1): ... for m in range(n+1): ...
RECURSIVE DenormLoop(_, _, _, _, _)
DenormLoop(st, n, m, cos_lat, sin_lat) ==
    IF n > st.degree THEN st
    ELSE IF m > n THEN DenormLoop(st, n + 1, 0, cos_lat, sin_lat)
    ELSE DenormLoop(DenormStep(IF m = 0 THEN StartDegree(st, n) ELSE st,
                               n, m, cos_lat, sin_lat),
                    n, m + 1, cos_lat, sin_lat)

\* Lines 678-681: the arrays before the loops.
DenormStart(o) ==
    [degree |-> Val(o.degree),
     S |-> Identity(Val(o.degree) + 1),
     k |-> Zeros(Val(o.degree) + 1, Val(o.degree) + 1),
     P |-> Identity(Val(o.degree) + 2),
     dP |-> Zeros(Val(o.degree) + 2, Val(o.degree) + 1),
     c |-> Val(o.c), cd |-> Val(o.cd), delta |-> 1]

\* The attributes the loops have written: k, P, dP and, in place, c and cd.
StoreLegendre(o, st) ==
    [o EXCEPT !.k = Some(st.k), !.P = Some(st.P), !.dP = Some(st.dP),
              !.c = Some(st.c), !.cd = Some(st.cd)]

\* WMM.denormalize_coefficients
denormalize_coefficients(o, latitude) ==
    StoreLegendre(o, DenormLoop(DenormStart(o), 1, 0,
                                np_cos(latitude), np_sin(latitude)))

\* ------------------------------------------------------------ coordinates
\* Semi-axes and mean radius of the Earth, in km.
EARTH_EQUATOR_RADIUS == 6378
EARTH_POLAR_RADIUS == 6357
EARTH_MEAN_RADIUS == 6371

\* f = (a-b)/a
Flatness(a, b) == Div((a - b) * Q, a)

\* e2 = f*(2.0-f)
Eccentricity(f) == Mul(f, 2 * Q - f)

\* Rc = a/np.sqrt(1.0-e2*np.sin(lat)**2)
PrimeVertical(a, e2, lat) ==
    Div(a * Q, ISqrt((Q - Mul(e2, Mul(np_sin(lat), np_sin(lat)))) * Q))

\* lat_spheric = np.arcsin(z/r)
SphericalLatitude(z, r) == [lat_spheric |-> np_arcsin(Div(z * Q, r)), r |-> r]

\* r = np.linalg.norm([rho, z])
RadialDistance(rho, z) == SphericalLatitude(z, norm(rho, z))

\* rho = (Rc+h)*np.cos(lat); z = (Rc*(1-e2)+h)*np.sin(lat)
FromCurvature(Rc, e2, lat, h) ==
    RadialDistance(Mul(Rc + h, np_cos(lat)),
                   Mul(Div(Rc * (Q - e2), Q) + h, np_sin(lat)))

FromEccentricity(a, e2, lat, h) == FromCurvature(PrimeVertical(a, e2, lat), e2, lat, h)

\* geodetic2spherical(lat, lon, h): [lat_spheric, r]; lon is returned as given.
geodetic2spherical(lat, h) ==
    FromEccentricity(EARTH_EQUATOR_RADIUS,
                     Eccentricity(Flatness(EARTH_EQUATOR_RADIUS, EARTH_POLAR_RADIUS)),
                     lat, h)

\* ------------------------------------------------------------ synthesis
\* self.sp[m] = self.sp[1]*self.cp[m-1] + self.cp[1]*self.sp[m-1]
NextSine(t, m) ==
    [t EXCEPT !.sp = VPut(@, m, Mul(VAt(@, 1), VAt(t.cp, m - 1))
                                  + Mul(VAt(t.cp, 1), VAt(@, m - 1)))]

\* self.cp[m] = self.cp[1]*self.cp[m-1] - self.sp[1]*self.sp[m-1]
NextCosine(t, m) ==
    [t EXCEPT !.cp = VPut(@, m, Mul(VAt(@, 1), VAt(@, m - 1))
                                  - Mul(VAt(t.sp, 1), VAt(t.sp, m - 1)))]

\* cos(m*lambda) and sin(m*lambda) by angle addition, m = 2..deg
RECURSIVE MultipleAngles(_, _, _)
MultipleAngles(t, m, deg) ==
    IF m > deg THEN t
    ELSE MultipleAngles(NextCosine(NextSine(t, m), m), m + 1, deg)

\* Lines 792-795: sp and cp before the loop.
FirstAngles(deg, lon) ==
    [sp |-> VPut(Vector(deg + 1, 0), 1, np_sin(lon)),
     cp |-> VPut(Vector(deg + 2, Q), 1, np_cos(lon))]

StoreAngles(o, t) == [o EXCEPT !.sp = Some(t.sp), !.cp = Some(t.cp)]

\* A time offset taken from the unrounded decimal date.
TimeOffsetUnrounded(date_dec, epoch) == date_dec - epoch

\* dt = round(self.date_dec, 1) - self.epoch, in 1/73000 year
TimeOffset(date_dec, epoch) ==
    RoundHalfEven(date_dec, YearUnits \div 10) * (YearUnits \div 10) - epoch

\* c + dt*cd (eq. 9)
Extrapolate(c, cd, dt) == c + Div(dt * cd, YearUnits)

RECURSIVE Power(_, _)
Power(x, e) == IF e = 0 THEN Q ELSE Mul(x, Power(x, e - 1))

\* The loops of the synthesis work on acc = [gh, x_p, y_p, z_p, Bp] within a
\* degree and on tot = [n, gh, Xp, Yp, Zp, Bp] across the degrees, n being
\* the degree the loop is at.

\* self.gh[m, n] and, if m > 0, self.gh[n, m-1]
StoreGH(o, gh, n, m, dt) ==
    IF m > 0
    THEN Put(Put(gh, m, n, Extrapolate(At(Val(o.c), m, n), At(Val(o.cd), m, n), dt)),
             n, m - 1,
             Extrapolate(At(Val(o.c), n, m - 1), At(Val(o.cd), n, m - 1), dt))
    ELSE Put(gh, m, n, Extrapolate(At(Val(o.c), m, n), At(Val(o.cd), m, n), dt))

\* g(t)cos(ml) + h(t)sin(ml)
Gchs(gh, cp, sp, n, m) ==
    Mul(At(gh, m, n), VAt(cp, m))
      + (IF m > 0 THEN Mul(At(gh, n, m - 1), VAt(sp, m)) ELSE 0)

\* g(t)sin(ml) - h(t)cos(ml)
Gshc(gh, cp, sp, n, m) ==
    Mul(At(gh, m, n), VAt(sp, m))
      - (IF m > 0 THEN Mul(At(gh, n, m - 1), VAt(cp, m)) ELSE 0)

\* if n > 1: Bp *= sin_lat - self.k[m, n]
PoleScale(Bp, o, n, m, sin_lat) ==
    IF n > 1 THEN Mul(Bp, sin_lat - At(Val(o.k), m, n)) ELSE Bp

\* The special case of the geographic poles (lines 824-827).
PoleTerm(Bp, o, gshc, n, m, arn2, cos_lat, sin_lat) ==
    IF cos_lat = 0 /\ m = 1
    THEN PoleScale(Bp + Mul(arn2, gshc), o, n, m, sin_lat)
    ELSE Bp

\* x_p, y_p, z_p and Bp (lines 820-827)
Accumulate(o, acc, gchs, gshc, n, m, arn2, cos_lat, sin_lat) ==
    [acc EXCEPT !.x_p = @ + Mul(gchs, At(Val(o.dP), m, n)),
                !.y_p = @ + m * Mul(gshc, At(Val(o.P), m, n)),
                !.z_p = @ + Mul(gchs, At(Val(o.P), m, n)),
                !.Bp = PoleTerm(@, o, gshc, n, m, arn2, cos_lat, sin_lat)]

Terms(o, acc, n, m, arn2, cos_lat, sin_lat) ==
    Accumulate(o, acc,
               Gchs(acc.gh, Val(o.cp), Val(o.sp), n, m),
               Gshc(acc.gh, Val(o.cp), Val(o.sp), n, m),
               n, m, arn2, cos_lat, sin_lat)

\* One pass of the inner loop of the synthesis for (n, m).
SynthStep(o, acc, n, m, dt, arn2, cos_lat, sin_lat) ==
    Terms(o, [acc EXCEPT !.gh = StoreGH(o, @, n, m, dt)], n, m, arn2, cos_lat, sin_lat)

RECURSIVE SynthOrders(_, _, _, _, _, _, _, _)
SynthOrders(o, acc, n, m, dt, arn2, cos_lat, sin_lat) ==
    IF m > n THEN acc
    ELSE SynthOrders(o, SynthStep(o, acc, n, m, dt, arn2, cos_lat, sin_lat),
                     n, m + 1, dt, arn2, cos_lat, sin_lat)

\* Xp += arn2 * x_p; Yp += arn2 * y_p; Zp -= (n+1) * arn2 * z_p
AddDegree(tot, acc, arn2) ==
    [n  |-> tot.n + 1,
     gh |-> acc.gh,
     Xp |-> tot.Xp + Mul(arn2, acc.x_p),
     Yp |-> tot.Yp + Mul(arn2, acc.y_p),
     Zp |-> tot.Zp - (tot.n + 1) * Mul(arn2, acc.z_p),
     Bp |-> acc.Bp]

\* One pass of the loop over the degrees, arn2 = ar**(n+2).
SynthDegree(o, tot, dt, arn2, cos_lat, sin_lat) ==
    AddDegree(tot,
              SynthOrders(o, [gh |-> tot.gh, x_p |-> 0, y_p |-> 0, z_p |-> 0,
                              Bp |-> tot.Bp],
                          tot.n, 0, dt, arn2, cos_lat, sin_lat),
              arn2)

\* The loop over the degrees (eq. 4).
RECURSIVE SynthDegrees(_, _, _, _, _, _)
SynthDegrees(o, tot, dt, ar, cos_lat, sin_lat) ==
    IF tot.n > Val(o.degree) THEN tot
    ELSE SynthDegrees(o, SynthDegree(o, tot, dt, Power(ar, tot.n + 2), cos_lat, sin_lat),
                      dt, ar, cos_lat, sin_lat)

\* ------------------------------------------------------------ elements
\* ahrs.common.frames.ned2enu: [x, y, z] -> [y, x, -z]
ned2enu(v) == <<v[2], v[1], -v[3]>>

\* A grivation whose polar correction starts at 55 degrees included.
GrivationInclusive(D, latitude, longitude) ==
    LET GV0 == D
        GV1 == IF latitude >= 55 THEN GV0 - longitude ELSE GV0
    IN  IF latitude <= -55 THEN GV1 + longitude ELSE GV1

\* Grivation (eq. 1), from the declination and the stored degrees.
Grivation(D, latitude, longitude) ==
    LET GV0 == D
        GV1 == IF latitude > 55 THEN GV0 - longitude ELSE GV0
    IN  IF latitude < -55 THEN GV1 + longitude ELSE GV1

\* A horizontal intensity that leaves the second component out.
HorizontalIntensityFirst(X, Y) == norm(X, 0)

\* np.linalg.norm([self.X, self.Y]) and np.linalg.norm([self.H, self.Z])
HorizontalIntensity(X, Y) == norm(X, Y)
TotalIntensity(H, Z) == norm(H, Z)

\* Eq. 17: X, Y, Z from the spherical components, delta = lat_prime - latitude.
Rotate(Xp, Yp, Zp, delta) ==
    <<Mul(Xp, np_cos(delta)) - Mul(Zp, np_sin(delta)),
      Yp,
      Mul(Xp, np_sin(delta)) + Mul(Zp, np_cos(delta))>>

\* if self.frame.upper() == 'ENU'
InFrame(frame, v) == IF frame = "ENU" THEN ned2enu(v) ELSE v

\* A publication that leaves the grivation of the earlier evaluation in place.
DerivedKeepingGV(o, v, H, D) ==
    [o EXCEPT !.X = Some(v[1]), !.Y = Some(v[2]), !.Z = Some(v[3]),
              !.H = Some(H), !.F = Some(TotalIntensity(H, v[3])),
              !.I = Some(arctan2deg(v[3], H)), !.D = Some(D)]

\* Lines 841-849, v being (X, Y, Z), H and D as computed from them.
Derived(o, v, H, D) ==
    [o EXCEPT !.X = Some(v[1]), !.Y = Some(v[2]), !.Z = Some(v[3]),
              !.H = Some(H), !.F = Some(TotalIntensity(H, v[3])),
              !.I = Some(arctan2deg(v[3], H)), !.D = Some(D),
              !.GV = Some(Grivation(D, Val(o.latitude), Val(o.longitude)))]

Components(o, v) ==
    Derived(o, v, HorizontalIntensity(v[1], v[2]), arctan2deg(v[2], v[1]))

\* Lines 832-849 of magnetic_field: rotation to geodetic coordinates, frame,
\* derived elements; latitude is the local (radians) one.
PublishElements(o, Xp, Yp, Zp, lat_prime, latitude) ==
    Components(o, InFrame(Val(o.frame), Rotate(Xp, Yp, Zp, AngleDiff(lat_prime, latitude))))

\* Line 831 and the publication, tot being the sums of the synthesis.
FinishField(o, tot, cos_lat, lat_prime, latitude) ==
    PublishElements([o EXCEPT !.gh = Some(tot.gh)],
                    tot.Xp,
                    IF cos_lat = 0 THEN tot.Bp ELSE Div(tot.Yp * Q, cos_lat),
                    tot.Zp, lat_prime, latitude)

\* Lines 799-831, once the coefficients are denormalized; g is the outcome
\* of geodetic2spherical and latitude the local (radians) one.
Synthesis(o, latitude, g) ==
    FinishField(o,
                SynthDegrees(o, [n |-> 1,
                                 gh |-> Zeros(Val(o.degree) + 2, Val(o.degree) + 1),
                                 Xp |-> 0, Yp |-> 0, Zp |-> 0, Bp |-> 0],
                             TimeOffset(Val(o.date_dec), Val(o.epoch)),
                             Div(EARTH_MEAN_RADIUS * Q, g.r),
                             np_cos(g.lat_spheric), np_sin(g.lat_spheric)),
                np_cos(g.lat_spheric), g.lat_spheric, latitude)

\* Lines 792-798: sp and cp.
SetAngles(o, longitude) ==
    StoreAngles(o, MultipleAngles(FirstAngles(Val(o.degree), longitude), 2, Val(o.degree)))

\* Lines 790-849, latitude and longitude in radians.
FieldAt(o, latitude, longitude, g) ==
    Synthesis(denormalize_coefficients(SetAngles(o, longitude), g.lat_spheric),
              latitude, g)

\* Lines 784-786
StoreLocation(o, latitude, longitude, height) ==
    [o EXCEPT !.latitude = Some(latitude), !.longitude = Some(longitude),
              !.height = Some(height)]

\* Lines 784-849, r being the outcome of lines 782-783.
Evaluate(r, latitude, longitude, height) ==
    IF r.exc # "none" THEN r
    ELSE Ok(FieldAt(StoreLocation(r.o, latitude, longitude, height),
                    Radians(latitude), Radians(longitude),
                    geodetic2spherical(Radians(latitude), height)))

\* The default of magnetic_field's date parameter: datetime.date.today(),
\* evaluated when the module is imported.
DefaultDate(today) == DateObj(today.year, today.yday)

\* The value of magnetic_field's date parameter.
CallDate(dateArg, today) ==
    IF dateArg.kind = "omitted" THEN DefaultDate(today) ELSE dateArg

\* Whether magnetic_field resets the date and the coefficients.
ResetsDate(date) == date.kind # "None"

\* Lines 782-783
ResetFor(o, date, today) ==
    IF ResetsDate(date) THEN reset_coefficients(o, date, today) ELSE Ok(o)

\* WMM.magnetic_field
magnetic_field(o, latitude, longitude, height, dateArg, today) ==
    Evaluate(ResetFor(o, CallDate(dateArg, today), today), latitude, longitude, height)

\* all([self.latitude, self.longitude])
Truthy(latitude, longitude) == latitude # 0 /\ longitude # 0

\* Lines 390-393
SetAttributes(o, latitude, longitude, height, frame) ==
    [o EXCEPT !.latitude = Some(latitude), !.longitude = Some(longitude),
              !.height = Some(height), !.frame = Some(frame)]

\* Lines 395-396, gd being the outcome of _guard_clauses.
FirstField(gd, today) ==
    IF gd.exc # "none" THEN gd
    ELSE IF Truthy(Val(gd.o.latitude), Val(gd.o.longitude))
    THEN magnetic_field(gd.o, Val(gd.o.latitude), Val(gd.o.longitude), Val(gd.o.height),
                        DateObj(Val(gd.o.date).year, Val(gd.o.date).yday), today)
    ELSE Ok(gd.o)

\* Lines 389-396, r being the outcome of reset_coefficients.
Initialise(r, latitude, longitude, height, frame, today) ==
    IF r.exc # "none" THEN r
    ELSE FirstField(guard_clauses(SetAttributes(r.o, latitude, longitude, height, frame)),
                    today)

\* The value of __init__'s date parameter (its default is None).
InitDate(dateArg) == IF dateArg.kind = "omitted" THEN DateNone ELSE dateArg

\* WMM.__init__
construct(dateArg, latitude, longitude, height, frame, today) ==
    Initialise(reset_coefficients(Blank, InitDate(dateArg), today),
               latitude, longitude, height, frame, today)

\* ------------------------------------------------------------ inputs
Loc(lat, lon, h) == [latitude |-> lat, longitude |-> lon, height |-> h]

Locations ==
    {Loc(10, -20, 10), Loc(0, -20, 0), Loc(55, 30, 0),
     Loc(90, 180, 0), Loc(-90, -180, 0),
     Loc(95, 30, 0), Loc(10, 185, 0)}

Frames == {"NED", "ENU", "XYZ"}

\* Dates that reset_date turns down (a wrong type, a year before 2015).
EarlyDates == {DateOther, DateNum(2014000), DateObj(2014, 365)}

Dates ==
    {DateNone, DateOmitted,
     DateNum(2014999), DateNum(2019999), DateNum(2020000), DateNum(2025000),
     DateObj(2017, 132), DateObj(2019, 365)} \cup EarlyDates

\* The arguments of magnetic_field: every date with every location, except
\* that a date of EarlyDates, which ends the call before the location is
\* read, comes with two locations only.
FieldArgs ==
    {a \in Dates \X Locations :
        a[1] \in EarlyDates => a[2] \in {Loc(10, -20, 10), Loc(95, 30, 0)}}

\* The arguments of WMM(): as FieldArgs, with the default frame at every
\* location and the other frames at one location.
ConstructArgs ==
    {a \in FieldArgs \X Frames : a[2] # "NED" => a[1][2] = Loc(10, -20, 10)}

\* The days on which the program may run.
Todays == {[year |-> 2021, yday |-> 100]}

\* ------------------------------------------------------------ state
VARIABLES
    wmm,      \* the attributes of the WMM object
    alive,    \* whether __init__ has returned the object
    call,     \* the last call: [op, date, loc, frame]
    raised,   \* the exception the last call raised, "none" if it returned
    ncalls,   \* method calls made on the object
    today     \* datetime.date.today()

vars == <<wmm, alive, call, raised, ncalls, today>>

NoLoc == Loc(0, 0, 0)

Init ==
    /\ wmm = Blank
    /\ alive = FALSE
    /\ call = [op |-> "none", date |-> DateNone, loc |-> NoLoc, frame |-> "NED"]
    /\ raised = "none"
    /\ ncalls = 0
    /\ today \in Todays

\* The object and the exception __init__ leaves: no object if it raised.
Constructed(r) ==
    /\ raised' = r.exc
    /\ alive' = (r.exc = "none")
    /\ wmm' = IF r.exc = "none" THEN r.o ELSE Blank

\* The object and the exception a method leaves.
Called(r) ==
    /\ raised' = r.exc
    /\ wmm' = r.o

\* wmm = WMM(date, latitude, longitude, height, frame)
Construct(date, loc, frame) ==
    /\ ~alive
    /\ call.op = "none"
    /\ Constructed(construct(date, loc.latitude, loc.longitude, loc.height, frame, today))
    /\ call' = [op |-> "construct", date |-> date, loc |-> loc, frame |-> frame]
    /\ UNCHANGED <<ncalls, today>>

\* wmm.magnetic_field(latitude, longitude, height, date)
MagneticField(date, loc) ==
    /\ alive
    /\ ncalls < MaxCalls
    /\ Called(magnetic_field(wmm, loc.latitude, loc.longitude, loc.height, date, today))
    /\ call' = [op |-> "magnetic_field", date |-> date, loc |-> loc,
                frame |-> Val(wmm.frame)]
    /\ ncalls' = ncalls + 1
    /\ UNCHANGED <<alive, today>>

\* wmm.reset_coefficients(date)
ResetCoefficients(date) ==
    /\ alive
    /\ ncalls < MaxCalls
    /\ Called(reset_coefficients(wmm, InitDate(date), today))
    /\ call' = [op |-> "reset_coefficients", date |-> date, loc |-> NoLoc,
                frame |-> Val(wmm.frame)]
    /\ ncalls' = ncalls + 1
    /\ UNCHANGED <<alive, today>>

Next ==
    \/ \E a \in ConstructArgs : Construct(a[1][1], a[1][2], a[2])
    \/ \E a \in FieldArgs : MagneticField(a[1], a[2])
    \/ \E date \in Dates : ResetCoefficients(date)

Spec == Init /\ [][Next]_vars

\* ------------------------------------------------------------ properties
\* The last call ran the synthesis: magnetic_field itself, or __init__ with a
\* latitude and a longitude that are both truthy.
Evaluates(c) ==
    \/ c.op = "magnetic_field"
    \/ c.op = "construct" /\ Truthy(c.loc.latitude, c.loc.longitude)

\* The last call ran the synthesis and returned.
Evaluated == alive /\ raised = "none" /\ Evaluates(call)

Elements(o) == [e \in ElementNames |-> o[e]]

InvalidLocation(c) ==
    \/ Abs(c.loc.latitude) > 90
    \/ Abs(c.loc.longitude) > 180
    \/ c.frame \notin {"NED", "ENU"}

\* C1: every operation that accepts a location (WMM() and magnetic_field)
\* raises when the latitude is outside [-90, 90], the longitude outside
\* [-180, 180] or the frame is neither NED nor ENU.
C1_InvalidLocationRaises ==
    (call.op \in {"construct", "magnetic_field"} /\ InvalidLocation(call))
        => raised # "none"

PredatesFirstModel(d) ==
    \/ d.kind = "num" /\ d.a < 2015 * 1000
    \/ d.kind = "date" /\ d.a < 2015

\* C2: a call whose date predates 2015 (a date of a year below 2015, a
\* decimal year below 2015.0) raises the unsupported-date error.
C2_EarlyDateRaises ==
    (call.op # "none" /\ PredatesFirstModel(call.date)) => raised = "ValueError"

AfterLastModel(d) ==
    \/ d.kind = "num" /\ d.a >= 2025 * 1000
    \/ d.kind = "date" /\ d.a >= 2025

\* C3: a call whose date lies after the 2020-2024 lustrum raises; no model
\* is built and nothing is published for it.
C3_UncoveredDateRaises ==
    (call.op # "none" /\ AfterLastModel(call.date)) => raised # "none"

\* The call's only reset_date is the one of the date passed to it (__init__
\* with a truthy location resets once more, from the date object it stored).
ResetsOnce(c) ==
    \/ c.op \in {"reset_coefficients", "magnetic_field"}
    \/ c.op = "construct" /\ ~Truthy(c.loc.latitude, c.loc.longitude)

\* C4: while the model's date is an accepted one (year >= 2015), the file
\* selected is the 2015 one if the decimal date is strictly below 2020.0 and
\* the 2020 one otherwise; a call that resets the date to the decimal year
\* 2019.999 leaves the 2015 file selected, one that resets it to 2020.0 the
\* 2020 file.
C4_TableByDecimalDate ==
    /\ (alive /\ Val(wmm.date).year >= 2015) =>
           /\ Val(wmm.date_dec) < 2020 * YearUnits => wmm.wmm_filename = Some(File2015)
           /\ Val(wmm.date_dec) >= 2020 * YearUnits => wmm.wmm_filename = Some(File2020)
    /\ (alive /\ raised = "none" /\ ResetsOnce(call) /\ call.date = DateNum(2019999)) =>
           /\ wmm.date_dec = Some(2019999 * MilliUnits)
           /\ wmm.wmm_filename = Some(File2015)
    /\ (alive /\ raised = "none" /\ ResetsOnce(call) /\ call.date = DateNum(2020000)) =>
           /\ wmm.date_dec = Some(2020 * YearUnits)
           /\ wmm.wmm_filename = Some(File2020)

\* A call has reset the date to 2019.999 and the 2015 file is selected.
C4_Witness ==
    /\ alive /\ raised = "none"
    /\ call.op = "reset_coefficients" /\ call.date = DateNum(2019999)
    /\ wmm.date_dec = Some(2019999 * MilliUnits)
    /\ wmm.wmm_filename = Some(File2015)

\* C5: magnetic_field called with a location and no date keeps the date,
\* the decimal date, the epoch and the selected file the model had.
C5_OmittedDateKeepsDate ==
    [][(call'.op = "magnetic_field" /\ call'.date = DateOmitted /\ call' # call) =>
          /\ wmm'.date = wmm.date
          /\ wmm'.date_dec = wmm.date_dec
          /\ wmm'.epoch = wmm.epoch
          /\ wmm'.wmm_filename = wmm.wmm_filename]_vars

\* The evaluation the model has just made, made instead on the table as
\* load_coefficients leaves it: same decimal date, epoch, location and frame,
\* no earlier evaluation.
FreshTable == load_coefficients(wmm, Val(wmm.wmm_filename))
FreshEvaluation ==
    magnetic_field(FreshTable, Val(wmm.latitude), Val(wmm.longitude),
                   Val(wmm.height), DateNone, today).o

\* C6: the elements an evaluation publishes depend on its date, location
\* and frame only: they are the ones the same evaluation publishes on a
\* model with no earlier evaluation, whatever calls came before.
C6_IndependentOfHistory ==
    Evaluated => Elements(wmm) = Elements(FreshEvaluation)

\* C7: after an evaluation the arrays c and cd hold what load_coefficients
\* stored in them for the selected file.
C7_TableReadOnly ==
    Evaluated => /\ wmm.c = FreshTable.c
                 /\ wmm.cd = FreshTable.cd

\* C8: after an evaluation at (latitude, longitude) in degrees, GV = D when
\* -55 <= latitude <= 55, GV = D - longitude when latitude > 55 and
\* GV = D + longitude when latitude < -55.
C8_Grivation ==
    Evaluated =>
        LET lat == call.loc.latitude
            lon == call.loc.longitude
            D   == Val(wmm.D)
            GV  == Val(wmm.GV)
        IN  /\ (-55 <= lat /\ lat <= 55) => GV = D
            /\ lat > 55 => GV = D - lon
            /\ lat < -55 => GV = D + lon

\* An evaluation above 55 degrees of latitude whose grivation is not D.
C8_Witness ==
    /\ Evaluated
    /\ call.loc.latitude > 55 /\ call.loc.latitude <= 90
    /\ wmm.GV = Some(Val(wmm.D) - call.loc.longitude)
    /\ wmm.GV # wmm.D

\* r is the square root of v cut to an integer.
IsRoot(r, v) == r >= 0 /\ r * r <= v /\ v < (r + 1) * (r + 1)

\* C9: after an evaluation, in either frame, H is the square root of
\* X^2 + Y^2 and F the one of H^2 + Z^2 (to the integer the model keeps),
\* with H >= 0 and F >= H, X, Y, Z being the published components.
C9_Intensities ==
    Evaluated =>
        LET X == Val(wmm.X)
            Y == Val(wmm.Y)
            Z == Val(wmm.Z)
            H == Val(wmm.H)
            F == Val(wmm.F)
        IN  /\ IsRoot(H, X * X + Y * Y)
            /\ IsRoot(F, H * H + Z * Z)
            /\ H >= 0
            /\ F >= H

\* An evaluation in the ENU frame with three non-zero components.
C9_Witness ==
    /\ Evaluated
    /\ wmm.frame = Some("ENU")
    /\ Val(wmm.X) # 0 /\ Val(wmm.Y) # 0 /\ Val(wmm.Z) # 0
    /\ Val(wmm.H) > 0 /\ Val(wmm.F) > Val(wmm.H)

\* round(date_dec, 1): the nearest tenth of a year, a tie going to the even one.
Tenth == YearUnits \div 10
NearestTenth(x) ==
    LET lo == x \div Tenth
        k  == CHOOSE k \in {lo, lo + 1} :
                 \/ 2 * Abs(x - Tenth * k) < Tenth
                 \/ 2 * Abs(x - Tenth * k) = Tenth /\ k % 2 = 0
    IN  Tenth * k

\* C10: after an evaluation, with dt = round(date_dec, 1) - epoch, every
\* coefficient of the synthesis is g = c[m, n] + dt*cd[m, n] (1 <= n <= degree,
\* 0 <= m <= n) and h = c[n, m-1] + dt*cd[n, m-1] (m >= 1); when dt = 0 they
\* are c[m, n] and c[n, m-1] themselves.
C10_Extrapolation ==
    Evaluated =>
        LET dt == NearestTenth(Val(wmm.date_dec)) - Val(wmm.epoch)
            c  == Val(wmm.c)
            cd == Val(wmm.cd)
            gh == Val(wmm.gh)
        IN  \A n \in 1 .. Val(wmm.degree) : \A m \in 0 .. n :
              /\ At(gh, m, n) = At(c, m, n) + Div(dt * At(cd, m, n), YearUnits)
              /\ m >= 1 => At(gh, n, m - 1)
                              = At(c, n, m - 1) + Div(dt * At(cd, n, m - 1), YearUnits)
              /\ dt = 0 => /\ At(gh, m, n) = At(c, m, n)
                           /\ m >= 1 => At(gh, n, m - 1) = At(c, n, m - 1)

\* An evaluation whose decimal date is not the epoch but rounds to it, the
\* secular terms being non-zero.
C10_Witness ==
    /\ Evaluated
    /\ wmm.date_dec # wmm.epoch
    /\ NearestTenth(Val(wmm.date_dec)) = Val(wmm.epoch)
    /\ At(Val(wmm.cd), 0, 1) # 0
    /\ At(Val(wmm.gh), 0, 1) = At(Val(wmm.c), 0, 1)

\* cos(phi') of the evaluation the last call made, as line 802 computes it.
CallCosine ==
    np_cos(geodetic2spherical(Radians(call.loc.latitude), call.loc.height).lat_spheric)

\* C11: an evaluation at latitude 90 or -90 takes the pole branch
\* (cos_lat == 0.0): Yp comes from Bp, not from Yp/cos_lat.
C11_PoleBranchTaken ==
    (Evaluated /\ Abs(call.loc.latitude) = 90) => CallCosine = 0

\* C12: once WMM() has returned for a supported date and a valid latitude
\* and longitude (0.0 included), the eight elements are set.
C12_ConstructEvaluates ==
    (alive /\ call.op = "construct" /\ raised = "none")
        => \A e \in ElementNames : wmm[e] # None

\* WMM.magnetic_elements
magnetic_elements(o) == [key \in {"X", "Y", "Z", "H", "F", "I", "D", "GV"} |-> o[key]]

\* The elements the synthesis publishes from the arrays the object holds
\* (c, cd, P, dP, k, sp, cp) at the location it holds.
StoredEvaluation ==
    Synthesis(wmm, Radians(Val(wmm.latitude)),
              geodetic2spherical(Radians(Val(wmm.latitude)), Val(wmm.height)))

\* C13: magnetic_elements has exactly the keys X, Y, Z, H, F, I, D, GV; its
\* values are all None or all set; when set, H, F, I, D, GV are the ones
\* derived from the X, Y, Z beside them at the stored location, and right
\* after an evaluation the eight values are the ones of that evaluation.
C13_OneSnapshot ==
    alive =>
        LET e == magnetic_elements(wmm)
        IN  /\ DOMAIN e = ElementNames
            /\ \/ \A key \in ElementNames : e[key] = None
               \/ /\ \A key \in ElementNames : e[key] # None
                  /\ IsRoot(Val(e.H), Val(e.X) * Val(e.X) + Val(e.Y) * Val(e.Y))
                  /\ IsRoot(Val(e.F), Val(e.H) * Val(e.H) + Val(e.Z) * Val(e.Z))
                  /\ e.I = Some(arctan2deg(Val(e.Z), Val(e.H)))
                  /\ e.D = Some(arctan2deg(Val(e.Y), Val(e.X)))
                  /\ Val(wmm.latitude) > 55 => Val(e.GV) = Val(e.D) - Val(wmm.longitude)
                  /\ Val(wmm.latitude) < -55 => Val(e.GV) = Val(e.D) + Val(wmm.longitude)
                  /\ Abs(Val(wmm.latitude)) <= 55 => e.GV = e.D
            /\ Evaluated => e = magnetic_elements(StoredEvaluation)

\* A second evaluation, at another location than the first, has replaced
\* the eight values.
C13_Witness ==
    /\ Evaluated
    /\ call.op = "magnetic_field"
    /\ call.loc.latitude > 55
    /\ \A key \in ElementNames : wmm[key] # None
    /\ wmm.GV # wmm.D

\* The table of the selected file, as load_coefficients stores it, after one
\* pass of denormalize_coefficients (the factors S do not depend on the
\* latitude).
ScaledOnce == denormalize_coefficients(FreshTable, Radians(0))

\* C14: after an evaluation every main and secular coefficient, at slot
\* (m, n) and at the h-slot (n, m-1), is the loaded value multiplied by
\* S(n, m) once.
C14_DenormalizedOnce ==
    Evaluated =>
        \A n \in 1..Val(wmm.degree) : \A m \in 0..n :
            /\ At(Val(wmm.c), m, n) = At(Val(ScaledOnce.c), m, n)
            /\ At(Val(wmm.cd), m, n) = At(Val(ScaledOnce.cd), m, n)
            /\ m > 0 => /\ At(Val(wmm.c), n, m - 1) = At(Val(ScaledOnce.c), n, m - 1)
                        /\ At(Val(wmm.cd), n, m - 1) = At(Val(ScaledOnce.cd), n, m - 1)

\* C15: a magnetic_field or reset_coefficients call that raises for its date
\* (ValueError for an unsupported date, TypeError for an invalid type)
\* leaves every attribute of the model as it was before the call.
C15_FailedCallKeepsModel ==
    [][(ncalls' = ncalls + 1 /\ raised' \in {"ValueError", "TypeError"})
          => wmm' = wmm]_vars

\* C16: for a datetime.date the selected table follows the calendar year:
\* WMM2015 for every day of 2015 to 2019, WMM2020 for every day from 2020.
C16_TableByCalendarYear ==
    (alive /\ raised = "none" /\ call.date.kind = "date")
        => wmm.wmm_filename = Some(IF call.date.a < 2020 THEN File2015 ELSE File2020)

\* sin(phi') of the evaluation the last call made, as line 803 computes it.
CallSine ==
    np_sin(geodetic2spherical(Radians(call.loc.latitude), call.loc.height).lat_spheric)

\* The term k * dP(m, n-2) of the recursion; k is 0 at degree 1, where
\* there is no degree n - 2.
TwoDegreesBack(dP, k, n, m) ==
    IF n >= 2 THEN Mul(At(k, m, n), At(dP, m, n - 2)) ELSE 0

\* The off-diagonal entry of the derivative table.
OffDiagonal(dP, P, k, n, m, cos_lat, sin_lat) ==
    At(dP, m, n) = Mul(sin_lat, At(dP, m, n - 1)) - Mul(cos_lat, At(P, m, n - 1))
                       - TwoDegreesBack(dP, k, n, m)

\* The recursion as stated: dP(0,0) = 1 and, on the diagonal,
\* dP(n,n) = sin * dP(n-1,n-1) + cos * P(n-1,n-1).
StatedRecursion(dP, P, k, degree, cos_lat, sin_lat) ==
    /\ At(dP, 0, 0) = Q
    /\ \A n \in 1..degree : \A m \in 0..n :
          IF n = m
          THEN At(dP, n, n) = Mul(sin_lat, At(dP, n - 1, n - 1))
                                  + Mul(cos_lat, At(P, n - 1, n - 1))
          ELSE OffDiagonal(dP, P, k, n, m, cos_lat, sin_lat)

\* The recursion of lines 681-697: dP(0,0) = 0 and, on the diagonal,
\* dP(n,n) = cos * dP(n-1,n-1) + sin * P(n-1,n-1).
CodedRecursion(dP, P, k, degree, cos_lat, sin_lat) ==
    /\ At(dP, 0, 0) = 0
    /\ \A n \in 1..degree : \A m \in 0..n :
          IF n = m
          THEN At(dP, n, n) = Mul(cos_lat, At(dP, n - 1, n - 1))
                                  + Mul(sin_lat, At(P, n - 1, n - 1))
          ELSE OffDiagonal(dP, P, k, n, m, cos_lat, sin_lat)

C18_StoredFactors ==
    Evaluated =>
        \A n \in 1..Val(wmm.degree) : \A m \in 0..n :
            /\ (2 * n - 1) * (2 * n - 3) # 0
            /\ At(Val(wmm.k), m, n) =
                  IF n > 1
                  THEN Div(((n - 1) ^ 2 - m ^ 2) * Q, (2 * n - 1) * (2 * n - 3))
                  ELSE 0

\* The last call loaded the table and ran no evaluation after it.
JustLoaded == alive /\ raised = "none" /\ call.op # "none" /\ ~Evaluates(call)

\* The rows of a table, last row first.
Reversed(data) == [i \in 1 .. Len(data) |-> data[Len(data) + 1 - i]]

\* Row (n, m, g, h, gdot, hdot) can be read back from the arrays c and cd.
ReadBack(c, cd, row) ==
    /\ At(c, row.m, row.n) = row.g
    /\ At(cd, row.m, row.n) = row.gd
    /\ row.m >= 1 => /\ At(c, row.n, row.m - 1) = row.h
                     /\ At(cd, row.n, row.m - 1) = row.hd

\* The slots of g and h of a row, and whether two rows share one.
GSlot(row) == <<row.m, row.n>>
HSlot(row) == <<row.n, row.m - 1>>
SlotsApart(r1, r2) ==
    /\ (r1 # r2) => GSlot(r1) # GSlot(r2)
    /\ (r1 # r2 /\ r1.m >= 1 /\ r2.m >= 1) => HSlot(r1) # HSlot(r2)
    /\ r2.m >= 1 => GSlot(r1) # HSlot(r2)

\* What C19 states of a loaded object o and the rows of its file.
LoadedAsStated(o, data) ==
    /\ \A i \in DOMAIN data :
          /\ 1 <= data[i].n /\ data[i].n <= Val(o.degree)
          /\ 0 <= data[i].m /\ data[i].m <= data[i].n
          /\ ReadBack(Val(o.c), Val(o.cd), data[i])
    /\ \A i, j \in DOMAIN data : SlotsApart(data[i], data[j])
    /\ LoadTable(o, Reversed(data)).c = o.c
    /\ LoadTable(o, Reversed(data)).cd = o.cd

\* C19: after load_coefficients, g and gdot of every row (n, m) are at slot
\* (m, n) and, for m >= 1, h and hdot at slot (n, m-1); no two coefficients
\* share a slot, every one is read back unchanged, and loading the rows in
\* the opposite order gives the same arrays.
C19_LoadedSlots ==
    JustLoaded => LoadedAsStated(wmm, COFData(Val(wmm.wmm_filename)))

\* reset_coefficients has loaded a table of degree 2 or more whose h of
\* order 2 is read back from slot (2, 1).
C19_Witness ==
    /\ JustLoaded
    /\ call.op = "reset_coefficients"
    /\ Val(wmm.degree) >= 2
    /\ At(Val(wmm.c), 2, 1) # 0
    /\ At(Val(wmm.c), 2, 1) # At(Val(wmm.c), 1, 2)

\* Index i is one of an axis of the given size as it stands, without
\* counting from the end.
InRange(i, size) == 0 <= i /\ i < size /\ Ix(i, size) = i

\* The indices of the pass (n, m) of the loops of denormalize_coefficients:
\* k, S, c and cd have degree+1 rows and columns, P degree+2 rows and
\* columns, dP degree+2 rows and degree+1 columns.
PassInRange(n, m, degree) ==
    /\ InRange(m, degree + 1) /\ InRange(n, degree + 1)
    /\ m > 0 => InRange(m - 1, degree + 1)
    /\ n = m => InRange(m - 1, degree + 1) /\ InRange(n - 1, degree + 1)
    /\ n # m => InRange(n - 1, degree + 1) /\ InRange(TwoBack(n), degree + 1)

\* C20: in the Legendre recursion of an evaluation, for 1 <= n <= degree and
\* 0 <= m <= n, every row and column index of P, dP, k, S, c and cd is
\* non-negative and within the array: none counts from the end.
C20_IndicesInRange ==
    Evaluated =>
        \A n \in 1..Val(wmm.degree) : \A m \in 0..n : PassInRange(n, m, Val(wmm.degree))

====
